---- MODULE Spec2Model ----
\* A model of the InfluxDB reporter of go-metrics-influxdb (src/influxdb.go):
\* the constructors, the run loop with its two tickers, the health check with
\* its reconnect, and send() with the encoding of every metric variant.
EXTENDS Integers, Sequences, FiniteSets, TLC

\* ---------------------------------------------------------------- bounds
\* Number of distinct live client handles the client library can hand out.
MaxHandles == 2
\* Metric snapshots are generated from a seed in 1..MaxSeed.
MaxSeed == 1

\* ------------------------------------------------------------- constants
\* The nil client.Client interface value (zero value of reporter.client).
Nil == 0
\* Capacity of the channel returned by time.Tick: one pending tick.
TickCap == 1

Handles == 1..MaxHandles
Names == {"requests", "latency"}
Kinds == {"Counter", "Gauge", "GaugeFloat64", "Histogram", "Meter", "Timer",
          "Healthcheck"}
NilTags == {}
TagSets == {NilTags, {<<"host", "h1">>}}
\* Flush intervals handed to the constructors; time.Tick(d) yields a channel
\* that never fires when d <= 0.
Intervals == {-1, 0, 1}

LogMakeClient == "unable to make InfluxDB client"
LogSend == "unable to send metrics to InfluxDB"
LogPing == "got error while sending a ping to InfluxDB, trying to recreate client"

\* ------------------------------------------------------------ the state
VARIABLES
  ctor,     \* the constructor that was called ("none" before the call)
  rep,      \* the reporter struct
  reg,      \* the metrics registry: name -> metric, owned by the host process
  pc,       \* position of the constructor / run loop
  sendPc,   \* position inside send(): "idle", "walk", "write"
  hcPc,     \* position inside the pingTicker case: "idle", "ping", "reconnect"
  bps,      \* the batch built by send(), while its Write is outstanding
  flushCh,  \* ticks pending in intervalTicker
  pingCh,   \* ticks pending in pingTicker
  calls,    \* client calls made by the current dispatch (or by the constructor)
  log,      \* lines logged by the current dispatch (or by the constructor)
  sent      \* the most recent Write the client carried out, with its batch

vars ==
  <<ctor, rep, reg, pc, sendPc, hcPc, bps, flushCh, pingCh, calls, log, sent>>

\* ------------------------------------------------------ metric snapshots
\* A registered metric: its variant, the seed its snapshot is generated from,
\* and whether client.NewPoint accepts the record built from it.
Metric(k, s, e) == [kind |-> k, seed |-> s, encodable |-> e]
NoMetric == [kind |-> "none", seed |-> 0, encodable |-> FALSE]
AllMetrics == {Metric(k, s, e) : k \in Kinds, s \in 1..MaxSeed, e \in BOOLEAN}
LoopMetrics == {Metric("Counter", 1, TRUE), Metric("GaugeFloat64", 1, FALSE),
                Metric("Healthcheck", 1, TRUE)}

\* metric.Snapshot(): every statistic of one metric gets its own value.
Snapshot(m) ==
  [Count |-> 100 * m.seed + 1, Value |-> 100 * m.seed + 2,
   Max |-> 100 * m.seed + 3, Mean |-> 100 * m.seed + 4,
   Min |-> 100 * m.seed + 5, StdDev |-> 100 * m.seed + 6,
   Variance |-> 100 * m.seed + 7, Rate1 |-> 100 * m.seed + 8,
   Rate5 |-> 100 * m.seed + 9, Rate15 |-> 100 * m.seed + 10,
   RateMean |-> 100 * m.seed + 11, seed |-> m.seed]

\* The quantiles asked for, in units of 1/10000.
Quantiles == <<5000, 7500, 9500, 9900, 9990, 9999>>
\* ms.Percentiles(qs): one value per quantile, in the order of qs.
Percentiles(ms, qs) == [i \in 1..Len(qs) |-> 100000 * ms.seed + qs[i]]

\* ------------------------------------------------------------- encoding
Supported == {"Counter", "Gauge", "GaugeFloat64", "Histogram", "Meter", "Timer"}

\* The measurement suffix of each case of the type switch.
Suffix(kind) ==
  CASE kind = "Counter" -> ".count"
    [] kind = "Gauge" -> ".gauge"
    [] kind = "GaugeFloat64" -> ".gauge"
    [] kind = "Histogram" -> ".histogram"
    [] kind = "Meter" -> ".meter"
    [] kind = "Timer" -> ".timer"

\* The field map literals of the type switch, one per case.
CounterFields(ms) == [value |-> ms.Count]

GaugeFields(ms) == [value |-> ms.Value]

\* (a Histogram whose p95 and p99 take each other's percentile)
HistogramFieldsSwapped(ms) ==
  LET ps == Percentiles(ms, Quantiles) IN
  [count |-> ms.Count, max |-> ms.Max, mean |-> ms.Mean,
   min |-> ms.Min, stddev |-> ms.StdDev, variance |-> ms.Variance,
   p50 |-> ps[1], p75 |-> ps[2], p95 |-> ps[4], p99 |-> ps[3],
   p999 |-> ps[5], p9999 |-> ps[6]]

HistogramFields(ms) ==
  LET ps == Percentiles(ms, Quantiles) IN
  [count |-> ms.Count, max |-> ms.Max, mean |-> ms.Mean,
   min |-> ms.Min, stddev |-> ms.StdDev, variance |-> ms.Variance,
   p50 |-> ps[1], p75 |-> ps[2], p95 |-> ps[3], p99 |-> ps[4],
   p999 |-> ps[5], p9999 |-> ps[6]]

\* (a Meter whose mean rate is filed under the Timer's key)
MeterFieldsMeanrate(ms) ==
  [count |-> ms.Count, m1 |-> ms.Rate1, m5 |-> ms.Rate5,
   m15 |-> ms.Rate15, meanrate |-> ms.RateMean]

MeterFields(ms) ==
  [count |-> ms.Count, m1 |-> ms.Rate1, m5 |-> ms.Rate5,
   m15 |-> ms.Rate15, mean |-> ms.RateMean]

\* (a Timer whose m1 carries the five-minute rate)
TimerFieldsRate5(ms) ==
  LET ps == Percentiles(ms, Quantiles) IN
  [count |-> ms.Count, max |-> ms.Max, mean |-> ms.Mean,
   min |-> ms.Min, stddev |-> ms.StdDev, variance |-> ms.Variance,
   p50 |-> ps[1], p75 |-> ps[2], p95 |-> ps[3], p99 |-> ps[4],
   p999 |-> ps[5], p9999 |-> ps[6],
   m1 |-> ms.Rate5, m5 |-> ms.Rate5, m15 |-> ms.Rate15,
   meanrate |-> ms.RateMean]

TimerFields(ms) ==
  LET ps == Percentiles(ms, Quantiles) IN
  [count |-> ms.Count, max |-> ms.Max, mean |-> ms.Mean,
   min |-> ms.Min, stddev |-> ms.StdDev, variance |-> ms.Variance,
   p50 |-> ps[1], p75 |-> ps[2], p95 |-> ps[3], p99 |-> ps[4],
   p999 |-> ps[5], p9999 |-> ps[6],
   m1 |-> ms.Rate1, m5 |-> ms.Rate5, m15 |-> ms.Rate15,
   meanrate |-> ms.RateMean]

Fields(kind, ms) ==
  CASE kind = "Counter" -> CounterFields(ms)
    [] kind = "Gauge" -> GaugeFields(ms)
    [] kind = "GaugeFloat64" -> GaugeFields(ms)
    [] kind = "Histogram" -> HistogramFields(ms)
    [] kind = "Meter" -> MeterFields(ms)
    [] kind = "Timer" -> TimerFields(ms)

\* client.NewPoint: the point built from a name, the tags and the fields.
NewPoint(name, tags, fields) == [name |-> name, tags |-> tags, fields |-> fields]

\* (a callback that throws the collected points away when NewPoint fails)
EachCallbackDropsAll(pts, name, m, tags) ==
  IF m.kind \in Supported
  THEN LET p == NewPoint(name \o Suffix(m.kind), tags, Fields(m.kind, Snapshot(m)))
       IN IF m.encodable THEN Append(pts, p) ELSE <<>>
  ELSE pts

\* (a callback whose type switch lacks the GaugeFloat64 case)
EachCallbackNoGaugeFloat64(pts, name, m, tags) ==
  IF m.kind \in Supported \ {"GaugeFloat64"}
  THEN LET p == NewPoint(name \o Suffix(m.kind), tags, Fields(m.kind, Snapshot(m)))
       IN IF m.encodable THEN Append(pts, p) ELSE pts
  ELSE pts

\* The callback handed to reg.Each: one case per supported variant appends one
\* point unless NewPoint returned an error; any other variant falls through.
EachCallback(pts, name, m, tags) ==
  IF m.kind \in Supported
  THEN LET p == NewPoint(name \o Suffix(m.kind), tags, Fields(m.kind, Snapshot(m)))
       IN IF m.encodable THEN Append(pts, p) ELSE pts
  ELSE pts

\* The names registered in a registry.
Registered(registry) == {n \in DOMAIN registry : registry[n] # NoMetric}

\* The orders in which reg.Each may visit the registered metrics.
Orders(S) ==
  {o \in [1..Cardinality(S) -> S] : \A i, j \in DOMAIN o : o[i] = o[j] => i = j}

\* reg.Each(callback) along one iteration order: the points collected in pts.
RECURSIVE Each(_, _, _, _)
Each(order, registry, tags, pts) ==
  IF order = <<>> THEN pts
  ELSE Each(Tail(order), registry, tags,
            EachCallback(pts, Head(order), registry[Head(order)], tags))

\* client.NewBatchPoints followed by bps.AddPoints(pts).
NoBatch == [database |-> "", precision |-> "", points |-> <<>>]
NewBatchPoints(database, pts) ==
  [database |-> database, precision |-> "ns", points |-> pts]

\* ------------------------------------------------------------- reporter
\* Addresses handed to the constructors, as <<scheme, host>>.
Urls == {<<"http", "localhost:8086">>, <<"", "localhost:8086">>}
Database == "metrics"
Username == "user"
Password == "secret"

\* The zero reporter, before a constructor has filled it in.
ZeroReporter ==
  [interval |-> 0, url |-> <<"", "">>, database |-> "", username |-> "",
   password |-> "", tags |-> NilTags, client |-> Nil]

\* The struct literal of the constructors: every field but client.
NewReporter(d, url, tags) ==
  [interval |-> d, url |-> url, database |-> Database, username |-> Username,
   password |-> Password, tags |-> tags, client |-> Nil]

\* What client.NewHTTPClient may return for an address while cur is the live
\* handle: (nil, err) unless the scheme is http or https, else a handle other
\* than cur.
NewHTTPClient(addr, cur) ==
  IF addr[1] \in {"http", "https"} THEN Handles \ {cur} ELSE {Nil}

\* (a makeClient that assigns the new client to a local variable)
makeClientShadowed(r, res) == r

\* makeClient: r.client, err = client.NewHTTPClient(...) stores whatever the
\* library returned, res in NewHTTPClient(r.url, r.client), the nil client of
\* a failure included; err # nil iff res = Nil.
makeClient(r, res) == [r EXCEPT !.client = res]

Call(op, h, ok, batch) == [op |-> op, h |-> h, ok |-> ok, batch |-> batch]
\* No Write has been carried out yet.
NoCall == Call("none", Nil, FALSE, NoBatch)

Running == {"select", "send", "hc"}

Min(a, b) == IF a < b THEN a ELSE b

\* --------------------------------------------------------- constructors
\* (a constructor that logs the makeClient error and runs all the same)
InfluxDBWithTagsNoReturn ==
  /\ pc = "start"
  /\ ctor' = "InfluxDBWithTags"
  /\ \E d \in Intervals, url \in Urls, tags \in TagSets :
     \E res \in NewHTTPClient(url, Nil) :
       /\ rep' = makeClient(NewReporter(d, url, tags), res)
       /\ calls' = <<Call("connect", res, res # Nil, NoBatch)>>
       /\ log' = IF res = Nil THEN <<LogMakeClient>> ELSE <<>>
       /\ pc' = "select"
  /\ UNCHANGED <<sent, reg, sendPc, hcPc, bps, flushCh, pingCh>>

\* InfluxDBWithTags: build the reporter, makeClient, log and return on error,
\* else run().
InfluxDBWithTags ==
  /\ pc = "start"
  /\ ctor' = "InfluxDBWithTags"
  /\ \E d \in Intervals, url \in Urls, tags \in TagSets :
     \E res \in NewHTTPClient(url, Nil) :
       /\ rep' = makeClient(NewReporter(d, url, tags), res)
       /\ calls' = <<Call("connect", res, res # Nil, NoBatch)>>
       /\ IF res = Nil
          THEN log' = <<LogMakeClient>> /\ pc' = "returned"
          ELSE log' = <<>> /\ pc' = "select"
  /\ UNCHANGED <<sent, reg, sendPc, hcPc, bps, flushCh, pingCh>>

\* InfluxDB: InfluxDBWithTags with nil tags.
InfluxDB ==
  /\ pc = "start"
  /\ ctor' = "InfluxDB"
  /\ \E d \in Intervals, url \in Urls :
     \E res \in NewHTTPClient(url, Nil) :
       /\ rep' = makeClient(NewReporter(d, url, NilTags), res)
       /\ calls' = <<Call("connect", res, res # Nil, NoBatch)>>
       /\ IF res = Nil
          THEN log' = <<LogMakeClient>> /\ pc' = "returned"
          ELSE log' = <<>> /\ pc' = "select"
  /\ UNCHANGED <<sent, reg, sendPc, hcPc, bps, flushCh, pingCh>>

\* (a constructor that calls makeClient over the client handed in)
InfluxDBWithTagsExMakesClient ==
  /\ pc = "start"
  /\ ctor' = "InfluxDBWithTagsEx"
  /\ \E c \in Handles, d \in Intervals, url \in Urls, tags \in TagSets :
     \E res \in NewHTTPClient(url, c) :
       /\ rep' = makeClient([NewReporter(d, url, tags) EXCEPT !.client = c], res)
       /\ calls' = <<Call("connect", res, res # Nil, NoBatch)>>
  /\ pc' = "select"
  /\ UNCHANGED <<sent, reg, sendPc, hcPc, bps, flushCh, pingCh, log>>

\* InfluxDBWithTagsEx: the client is handed in; no makeClient before run().
InfluxDBWithTagsEx ==
  /\ pc = "start"
  /\ ctor' = "InfluxDBWithTagsEx"
  /\ \E c \in Handles, d \in Intervals, url \in Urls, tags \in TagSets :
       rep' = [NewReporter(d, url, tags) EXCEPT !.client = c]
  /\ pc' = "select"
  /\ UNCHANGED <<sent, reg, sendPc, hcPc, bps, flushCh, pingCh, calls, log>>

\* -------------------------------------------------------------- tickers
\* intervalTicker delivers a tick; a tick that finds the channel full is dropped.
TickFlush ==
  /\ pc \in Running
  /\ rep.interval > 0
  /\ flushCh' = Min(flushCh + 1, TickCap)
  /\ UNCHANGED <<sent, ctor, rep, reg, pc, sendPc, hcPc, bps, pingCh, calls,
                 log>>

\* (a pingTicker whose channel queues up to three ticks)
TickPingQueues ==
  /\ pc \in Running
  /\ pingCh' = Min(pingCh + 1, 3)
  /\ UNCHANGED <<sent, ctor, rep, reg, pc, sendPc, hcPc, bps, flushCh, calls,
                 log>>

\* pingTicker delivers a tick.
TickPing ==
  /\ pc \in Running
  /\ pingCh' = Min(pingCh + 1, TickCap)
  /\ UNCHANGED <<sent, ctor, rep, reg, pc, sendPc, hcPc, bps, flushCh, calls,
                 log>>

\* ------------------------------------------------------------ flush path
\* (a select that starts send() in a goroutine of its own)
SelectFlushAsync ==
  /\ pc = "select"
  /\ flushCh > 0
  /\ flushCh' = flushCh - 1
  /\ pc' = "select"
  /\ sendPc' = "walk"
  /\ calls' = <<>>
  /\ log' = <<>>
  /\ UNCHANGED <<sent, ctor, rep, reg, hcPc, bps, pingCh>>

\* select receives from intervalTicker and calls r.send().
SelectFlush ==
  /\ pc = "select"
  /\ flushCh > 0
  /\ flushCh' = flushCh - 1
  /\ pc' = "send"
  /\ sendPc' = "walk"
  /\ calls' = <<>>
  /\ log' = <<>>
  /\ UNCHANGED <<sent, ctor, rep, reg, hcPc, bps, pingCh>>

\* (a send() that returns without a Write when there is no point)
SendWalkSkipsEmpty ==
  /\ sendPc = "walk"
  /\ \E order \in Orders(Registered(reg)), bpErr \in BOOLEAN :
       LET pts == Each(order, reg, rep.tags, <<>>) IN
       IF bpErr
       THEN /\ log' = Append(log, LogSend)
            /\ sendPc' = "idle"
            /\ pc' = "select"
            /\ bps' = NoBatch
       ELSE IF pts = <<>>
       THEN /\ log' = log
            /\ sendPc' = "idle"
            /\ pc' = "select"
            /\ bps' = NoBatch
       ELSE /\ bps' = NewBatchPoints(rep.database, pts)
            /\ sendPc' = "write"
            /\ UNCHANGED <<pc, log>>
  /\ UNCHANGED <<sent, ctor, rep, reg, hcPc, flushCh, pingCh, calls>>

\* (a send() that returns nil when NewBatchPoints fails)
SendWalkSwallowsErr ==
  /\ sendPc = "walk"
  /\ \E order \in Orders(Registered(reg)), bpErr \in BOOLEAN :
       LET pts == Each(order, reg, rep.tags, <<>>) IN
       IF bpErr
       THEN /\ log' = log
            /\ sendPc' = "idle"
            /\ pc' = "select"
            /\ bps' = NoBatch
       ELSE /\ bps' = NewBatchPoints(rep.database, pts)
            /\ sendPc' = "write"
            /\ UNCHANGED <<pc, log>>
  /\ UNCHANGED <<sent, ctor, rep, reg, hcPc, flushCh, pingCh, calls>>

\* (a send() that starts from the points of a Write that failed)
SendWalkKeepsFailed ==
  /\ sendPc = "walk"
  /\ \E order \in Orders(Registered(reg)), bpErr \in BOOLEAN :
       LET kept == IF sent.op = "write" /\ ~sent.ok
                   THEN sent.batch.points ELSE <<>>
           pts == Each(order, reg, rep.tags, kept) IN
       IF bpErr
       THEN /\ log' = Append(log, LogSend)
            /\ sendPc' = "idle"
            /\ pc' = "select"
            /\ bps' = NoBatch
       ELSE /\ bps' = NewBatchPoints(rep.database, pts)
            /\ sendPc' = "write"
            /\ UNCHANGED <<pc, log>>
  /\ UNCHANGED <<sent, ctor, rep, reg, hcPc, flushCh, pingCh, calls>>

\* send(), up to the Write: walk the registry, build the batch; an error of
\* NewBatchPoints is returned to run(), which logs it.
SendWalk ==
  /\ sendPc = "walk"
  /\ \E order \in Orders(Registered(reg)), bpErr \in BOOLEAN :
       LET pts == Each(order, reg, rep.tags, <<>>) IN
       IF bpErr
       THEN /\ log' = Append(log, LogSend)
            /\ sendPc' = "idle"
            /\ pc' = "select"
            /\ bps' = NoBatch
       ELSE /\ bps' = NewBatchPoints(rep.database, pts)
            /\ sendPc' = "write"
            /\ UNCHANGED <<pc, log>>
  /\ UNCHANGED <<sent, ctor, rep, reg, hcPc, flushCh, pingCh, calls>>

\* (a run loop that returns on the error of send())
SendWriteStops ==
  /\ pc # "crashed"
  /\ sendPc = "write"
  /\ IF rep.client = Nil
     THEN /\ pc' = "crashed"
          /\ calls' = Append(calls, Call("write", Nil, FALSE, bps))
          /\ UNCHANGED <<sendPc, bps, log, sent>>
     ELSE \E ok \in BOOLEAN :
            /\ calls' = Append(calls, Call("write", rep.client, ok, bps))
            /\ sent' = Call("write", rep.client, ok, bps)
            /\ log' = IF ok THEN log ELSE Append(log, LogSend)
            /\ sendPc' = "idle"
            /\ pc' = IF ok THEN "select" ELSE "returned"
            /\ bps' = NoBatch
  /\ UNCHANGED <<ctor, rep, reg, hcPc, flushCh, pingCh>>

\* r.client.Write(bps) returns; its error is returned to run(), which logs it.
\* The call on the nil client is made and panics.
SendWrite ==
  /\ pc # "crashed"
  /\ sendPc = "write"
  /\ IF rep.client = Nil
     THEN /\ pc' = "crashed"
          /\ calls' = Append(calls, Call("write", Nil, FALSE, bps))
          /\ UNCHANGED <<sendPc, bps, log, sent>>
     ELSE \E ok \in BOOLEAN :
            /\ calls' = Append(calls, Call("write", rep.client, ok, bps))
            /\ sent' = Call("write", rep.client, ok, bps)
            /\ log' = IF ok THEN log ELSE Append(log, LogSend)
            /\ sendPc' = "idle"
            /\ pc' = "select"
            /\ bps' = NoBatch
  /\ UNCHANGED <<ctor, rep, reg, hcPc, flushCh, pingCh>>

\* ----------------------------------------------------- health-check path
\* select receives from pingTicker.
SelectPing ==
  /\ pc = "select"
  /\ pingCh > 0
  /\ pingCh' = pingCh - 1
  /\ pc' = "hc"
  /\ hcPc' = "ping"
  /\ calls' = <<>>
  /\ log' = <<>>
  /\ UNCHANGED <<sent, ctor, rep, reg, sendPc, bps, flushCh>>

\* (a health check that recreates the client after every ping)
HcPingAlwaysReconnects ==
  /\ pc # "crashed"
  /\ hcPc = "ping"
  /\ IF rep.client = Nil
     THEN /\ pc' = "crashed"
          /\ calls' = Append(calls, Call("ping", Nil, FALSE, NoBatch))
          /\ UNCHANGED <<hcPc, log>>
     ELSE \E ok \in BOOLEAN :
            /\ calls' = Append(calls, Call("ping", rep.client, ok, NoBatch))
            /\ IF ok
               THEN hcPc' = "reconnect" /\ pc' = pc /\ log' = log
               ELSE hcPc' = "reconnect" /\ pc' = pc /\ log' = Append(log, LogPing)
  /\ UNCHANGED <<sent, ctor, rep, reg, sendPc, bps, flushCh, pingCh>>

\* (a health check that pings a second time when the first ping fails)
HcPingRetries ==
  /\ pc # "crashed"
  /\ hcPc = "ping"
  /\ IF rep.client = Nil
     THEN /\ pc' = "crashed"
          /\ calls' = Append(calls, Call("ping", Nil, FALSE, NoBatch))
          /\ UNCHANGED <<hcPc, log>>
     ELSE \E ok \in BOOLEAN :
            /\ calls' = Append(calls, Call("ping", rep.client, ok, NoBatch))
            /\ IF ok
               THEN hcPc' = "idle" /\ pc' = "select" /\ log' = log
               ELSE /\ hcPc' = IF calls = <<>> THEN "ping" ELSE "reconnect"
                    /\ pc' = pc
                    /\ log' = Append(log, LogPing)
  /\ UNCHANGED <<sent, ctor, rep, reg, sendPc, bps, flushCh, pingCh>>

\* r.client.Ping(1s) returns; on error log and go on to makeClient. The call
\* on the nil client is made and panics.
HcPing ==
  /\ pc # "crashed"
  /\ hcPc = "ping"
  /\ IF rep.client = Nil
     THEN /\ pc' = "crashed"
          /\ calls' = Append(calls, Call("ping", Nil, FALSE, NoBatch))
          /\ UNCHANGED <<hcPc, log>>
     ELSE \E ok \in BOOLEAN :
            /\ calls' = Append(calls, Call("ping", rep.client, ok, NoBatch))
            /\ IF ok
               THEN hcPc' = "idle" /\ pc' = "select" /\ log' = log
               ELSE hcPc' = "reconnect" /\ pc' = pc /\ log' = Append(log, LogPing)
  /\ UNCHANGED <<sent, ctor, rep, reg, sendPc, bps, flushCh, pingCh>>

\* r.makeClient() after a failed ping; its error is logged.
HcReconnect ==
  /\ hcPc = "reconnect"
  /\ \E res \in NewHTTPClient(rep.url, rep.client) :
       /\ rep' = makeClient(rep, res)
       /\ calls' = Append(calls, Call("connect", res, res # Nil, NoBatch))
       /\ log' = IF res = Nil THEN Append(log, LogMakeClient) ELSE log
  /\ hcPc' = "idle"
  /\ pc' = "select"
  /\ UNCHANGED <<sent, ctor, reg, sendPc, bps, flushCh, pingCh>>

\* ------------------------------------------------------------- the host
\* The host process registers, replaces or unregisters a metric.
HostUpdate ==
  /\ pc # "crashed"
  /\ \E n \in Names, m \in LoopMetrics \cup {NoMetric} :
       /\ reg[n] # m
       /\ reg' = [reg EXCEPT ![n] = m]
  /\ UNCHANGED <<sent, ctor, rep, pc, sendPc, hcPc, bps, flushCh, pingCh,
                 calls, log>>

\* -------------------------------------------------------- specifications
InitWith(metrics) ==
  /\ ctor = "none"
  /\ rep = ZeroReporter
  /\ reg \in [Names -> metrics \cup {NoMetric}]
  /\ pc = "start"
  /\ sendPc = "idle"
  /\ hcPc = "idle"
  /\ bps = NoBatch
  /\ flushCh = 0
  /\ pingCh = 0
  /\ calls = <<>>
  /\ log = <<>>
  /\ sent = NoCall

Init == InitWith(LoopMetrics)

Next ==
  \/ InfluxDB
  \/ InfluxDBWithTags
  \/ InfluxDBWithTagsEx
  \/ TickFlush
  \/ TickPing
  \/ SelectFlush
  \/ SendWalk
  \/ SendWrite
  \/ SelectPing
  \/ HcPing
  \/ HcReconnect
  \/ HostUpdate

Spec == Init /\ [][Next]_vars

\* The scheduling of the run loop: a blocked call returns, both tickers keep
\* ticking, and select chooses at random among the ready channels, so a ready
\* case that stays or keeps becoming ready is eventually chosen.
Fairness ==
  /\ WF_vars(SendWalk)
  /\ WF_vars(SendWrite)
  /\ WF_vars(HcPing)
  /\ WF_vars(HcReconnect)
  /\ WF_vars(TickFlush)
  /\ WF_vars(TickPing)
  /\ SF_vars(SelectFlush)
  /\ SF_vars(SelectPing)

FairSpec == Init /\ [][Next]_vars /\ Fairness

\* ================================================================ claims
Last(q) == q[Len(q)]

\* The dispatch that just ended was a health check whose ping failed and whose
\* makeClient failed too.
ReconnectFailed ==
  /\ hcPc = "idle"
  /\ Len(calls) = 2
  /\ calls[1].op = "ping" /\ ~calls[1].ok
  /\ calls[2].op = "connect" /\ ~calls[2].ok

\* The dispatch that just ended was a health check whose ping failed and whose
\* makeClient succeeded.
ReconnectSucceeded ==
  /\ hcPc = "idle"
  /\ Len(calls) = 2
  /\ calls[1].op = "ping" /\ ~calls[1].ok
  /\ calls[2].op = "connect" /\ calls[2].ok

\* C1: after a failed ping followed by a failed makeClient the reporter still
\* holds the handle the ping was sent on (the old handle is neither cleared nor
\* replaced) and the loop is alive.
C1_OldHandleKept ==
  ReconnectFailed => (rep.client = calls[1].h /\ pc = "select")

\* C2: a successful makeClient after a failed ping replaces the handle by the
\* new one, which differs from the old one; every Write and Ping is issued on
\* the handle the reporter holds at that moment; and once the constructor is
\* done the handle changes in no step but that makeClient, so every later Write
\* and Ping uses the new handle until the next reconnect.
C2_NewHandleUsed ==
  [][/\ (hcPc = "reconnect" /\ Last(calls').ok)
          => (rep'.client = Last(calls').h /\ rep'.client # rep.client
              /\ rep'.client # calls[1].h)
     /\ (Len(calls') > Len(calls) /\ Last(calls').op \in {"write", "ping"})
          => (Last(calls').h = rep.client /\ rep'.client = rep.client)
     /\ (rep'.client # rep.client)
          => (pc = "start" \/ (hcPc = "reconnect" /\ Last(calls').op = "connect"))]_vars

C2_Witness == ReconnectSucceeded /\ rep.client = calls[2].h /\ rep.client # calls[1].h

\* C3: when the initial makeClient of InfluxDB / InfluxDBWithTags fails, the
\* constructor logs one line and returns: the run loop is never entered, no
\* ticker exists, and no send, Write, Ping or further makeClient ever happens.
C3_InitialFailureReturns ==
  /\ []((Len(calls) >= 1 /\ calls[1].op = "connect" /\ ~calls[1].ok)
          => /\ pc = "returned"
             /\ ctor \in {"InfluxDB", "InfluxDBWithTags"}
             /\ Len(calls) = 1
             /\ log = <<LogMakeClient>>
             /\ sendPc = "idle" /\ hcPc = "idle"
             /\ flushCh = 0 /\ pingCh = 0)
  /\ [][pc = "returned"
          => UNCHANGED <<ctor, rep, pc, sendPc, hcPc, bps, flushCh, pingCh,
                         calls, log, sent>>]_vars

C3_Witness ==
  pc = "returned" /\ ctor = "InfluxDB" /\ log = <<LogMakeClient>> /\ rep.client = Nil

C5_LoopRunsForever ==
  (ctor # "none" /\ pc # "returned") => pc \in Running

C7_TicksServiced ==
  /\ (pingCh > 0) ~> (hcPc = "ping")
  /\ (flushCh > 0) ~> (sendPc = "walk")

\* ------------------------------------------------ the encoding on its own
\* A running reporter (entered through InfluxDBWithTagsEx) over every registry
\* of metrics of every variant, flushing again and again.
EncInit ==
  /\ ctor = "InfluxDBWithTagsEx"
  /\ \E tags \in TagSets :
       rep = [NewReporter(1, <<"http", "localhost:8086">>, tags) EXCEPT !.client = 1]
  /\ reg \in [Names -> AllMetrics \cup {NoMetric}]
  /\ pc = "select"
  /\ sendPc = "idle"
  /\ hcPc = "idle"
  /\ bps = NoBatch
  /\ flushCh = 0
  /\ pingCh = 0
  /\ calls = <<>>
  /\ log = <<>>
  /\ sent = NoCall

EncNext ==
  \/ TickFlush
  \/ SelectFlush
  \/ SendWalk
  \/ SendWrite

EncSpec == EncInit /\ [][EncNext]_vars

\* The table of section 4.2: suffix and field names of every variant.
TableSuffix ==
  [Counter |-> ".count", Gauge |-> ".gauge", GaugeFloat64 |-> ".gauge",
   Histogram |-> ".histogram", Meter |-> ".meter", Timer |-> ".timer"]
HistogramFieldNames ==
  {"count", "max", "mean", "min", "stddev", "variance",
   "p50", "p75", "p95", "p99", "p999", "p9999"}
TableFields ==
  [Counter |-> {"value"}, Gauge |-> {"value"}, GaugeFloat64 |-> {"value"},
   Histogram |-> HistogramFieldNames,
   Meter |-> {"count", "m1", "m5", "m15", "mean"},
   Timer |-> HistogramFieldNames \cup {"m1", "m5", "m15", "meanrate"}]
AllSuffixes == {TableSuffix[k] : k \in DOMAIN TableSuffix}

\* The positions of the batch's points that carry a given measurement name.
PointsNamed(points, name) == {i \in DOMAIN points : points[i].name = name}
\* The positions of the batch's points that stem from registry entry n.
PointsOf(points, n) ==
  {i \in DOMAIN points : \E sfx \in AllSuffixes : points[i].name = n \o sfx}

\* C8 (as claimed): the batch of a flush holds exactly one record, named
\* "<name>.<suffix>", for every registered metric of a supported variant, none
\* for any other entry, and as many records as there are supported entries.
C8_OnePerSupported ==
  sendPc = "write" =>
    LET sup == {n \in Registered(reg) : reg[n].kind \in Supported} IN
    /\ Len(bps.points) = Cardinality(sup)
    /\ \A n \in sup :
         /\ Cardinality(PointsNamed(bps.points, n \o TableSuffix[reg[n].kind])) = 1
         /\ Cardinality(PointsOf(bps.points, n)) = 1
    /\ \A n \in Names \ sup : PointsOf(bps.points, n) = {}

\* C8 (amended): the same, counting the supported entries whose record
\* construction succeeded; a supported entry whose NewPoint fails yields no
\* record, like an entry of any other variant, and the flush goes on.
C8_OnePerEncoded ==
  sendPc = "write" =>
    LET enc == {n \in Registered(reg) :
                  reg[n].kind \in Supported /\ reg[n].encodable} IN
    /\ Len(bps.points) = Cardinality(enc)
    /\ \A n \in enc :
         /\ Cardinality(PointsNamed(bps.points, n \o TableSuffix[reg[n].kind])) = 1
         /\ Cardinality(PointsOf(bps.points, n)) = 1
    /\ \A n \in Names \ enc : PointsOf(bps.points, n) = {}

C8_Witness ==
  /\ sendPc = "write"
  /\ Len(bps.points) = 1
  /\ bps.points[1].name = "requests.gauge"
  /\ reg["requests"].kind = "GaugeFloat64"
  /\ reg["latency"].kind = "Healthcheck"

\* C9: the field names of every record are exactly those the table gives for
\* the variant of its source metric, whatever the metric's values.
C9_FieldSets ==
  sendPc = "write" =>
    \A i \in DOMAIN bps.points :
      \E n \in Registered(reg) :
        /\ reg[n].kind \in Supported
        /\ bps.points[i].name = n \o TableSuffix[reg[n].kind]
        /\ DOMAIN bps.points[i].fields = TableFields[reg[n].kind]

C9_Witness ==
  /\ sendPc = "write"
  /\ Len(bps.points) = 2
  /\ {reg[n].kind : n \in Names} = {"Meter", "Histogram"}

\* C10 (as claimed): a Timer's record has 15 fields, among them count, mean and
\* m1 with the snapshot's count, mean and one-minute rate.
C10_TimerFifteen ==
  sendPc = "write" =>
    \A n \in Registered(reg), i \in DOMAIN bps.points :
      (reg[n].kind = "Timer" /\ bps.points[i].name = n \o ".timer")
        => /\ Cardinality(DOMAIN bps.points[i].fields) = 15
           /\ bps.points[i].fields.count = Snapshot(reg[n]).Count
           /\ bps.points[i].fields.mean = Snapshot(reg[n]).Mean
           /\ bps.points[i].fields.m1 = Snapshot(reg[n]).Rate1

\* C10 (amended): a Timer's record has 16 fields, the 12 of a Histogram and
\* m1, m5, m15, meanrate, among them count, mean and m1 with the snapshot's
\* count, mean and one-minute rate.
C10_TimerSixteen ==
  sendPc = "write" =>
    \A n \in Registered(reg), i \in DOMAIN bps.points :
      (reg[n].kind = "Timer" /\ bps.points[i].name = n \o ".timer")
        => /\ Cardinality(DOMAIN bps.points[i].fields) = 16
           /\ bps.points[i].fields.count = Snapshot(reg[n]).Count
           /\ bps.points[i].fields.mean = Snapshot(reg[n]).Mean
           /\ bps.points[i].fields.m1 = Snapshot(reg[n]).Rate1

C10_Witness ==
  /\ sendPc = "write"
  /\ reg["latency"].kind = "Timer"
  /\ \E i \in DOMAIN bps.points : bps.points[i].name = "latency.timer"

\* The percentile field names, in the order of the quantile list.
PercentileNames == <<"p50", "p75", "p95", "p99", "p999", "p9999">>

\* C11: in the record of a Histogram or a Timer the i-th value returned for
\* the quantile list {0.5, 0.75, 0.95, 0.99, 0.999, 0.9999} is the value of
\* the i-th of the fields p50, p75, p95, p99, p999, p9999.
C11_PercentilesPositional ==
  sendPc = "write" =>
    \A n \in Registered(reg), i \in DOMAIN bps.points :
      (reg[n].kind \in {"Histogram", "Timer"}
         /\ bps.points[i].name = n \o TableSuffix[reg[n].kind])
        => LET ps == Percentiles(Snapshot(reg[n]),
                                 <<5000, 7500, 9500, 9900, 9990, 9999>>)
           IN \A k \in 1..6 : bps.points[i].fields[PercentileNames[k]] = ps[k]

C11_Witness ==
  /\ sendPc = "write"
  /\ reg["requests"].kind = "Histogram"
  /\ reg["latency"].kind = "Timer"
  /\ Len(bps.points) = 2

\* The step of send() that ends the registry walk.
WalkEnds == sendPc = "walk" /\ sendPc' # "walk"
\* The step in which the Write call of send() is made.
WriteMade == sendPc = "write" /\ calls' # calls

\* C12 (as claimed): a flush that finds the registry empty builds a batch
\* with zero records and makes exactly one Write call, on the current handle.
C12_EmptyStillWrites ==
  [][/\ (WalkEnds /\ Registered(reg) = {})
          => (sendPc' = "write" /\ bps'.points = <<>> /\ calls' = <<>>)
     /\ (WriteMade /\ bps.points = <<>>)
          => (calls' = <<Call("write", rep.client, Last(calls').ok, bps)>>
              /\ sendPc' \in {"idle", "write"})]_vars

\* C12 (amended): the same, unless NewBatchPoints fails, in which case the
\* error is logged and no Write call is made.
C12_EmptyWritesUnlessBatchFails ==
  [][/\ (WalkEnds /\ Registered(reg) = {})
          => \/ (sendPc' = "write" /\ bps'.points = <<>> /\ calls' = <<>>)
             \/ (sendPc' = "idle" /\ log' = <<LogSend>> /\ calls' = <<>>
                 /\ pc' = "select")
     /\ (WriteMade /\ bps.points = <<>>)
          => (calls' = <<Call("write", rep.client, Last(calls').ok, bps)>>
              /\ sendPc' \in {"idle", "write"})]_vars

C12_Witness ==
  /\ pc = "select"
  /\ Registered(reg) = {}
  /\ Len(calls) = 1 /\ calls[1].op = "write" /\ calls[1].batch.points = <<>>
  /\ sent = calls[1]

\* C13: when NewPoint fails for exactly one of the N registered metrics of a
\* supported variant, the batch handed to Write holds exactly the N-1 records
\* of the others, wherever the failing metric comes in the iteration.
C13_OneBadMetric ==
  LET sup == {n \in Registered(reg) : reg[n].kind \in Supported}
      bad == {n \in sup : ~reg[n].encodable}
      NMinusOne(points) ==
        /\ Len(points) = Cardinality(sup) - 1
        /\ \A n \in sup \ bad :
             Cardinality(PointsNamed(points, n \o TableSuffix[reg[n].kind])) = 1
        /\ \A n \in bad : PointsOf(points, n) = {}
  IN Cardinality(bad) = 1 =>
       /\ sendPc = "write" => NMinusOne(bps.points)
       /\ (calls # <<>> /\ calls[1].op = "write") => NMinusOne(calls[1].batch.points)

C13_Witness ==
  /\ reg["requests"] = Metric("Timer", 1, FALSE)
  /\ reg["latency"] = Metric("Counter", 1, TRUE)
  /\ Len(calls) = 1 /\ calls[1].op = "write"
  /\ Len(calls[1].batch.points) = 1
  /\ calls[1].batch.points[1].name = "latency.count"

\* C14: InfluxDBWithTagsEx enters the run loop with the handle it was given
\* and without a makeClient; afterwards a makeClient happens only right after
\* a failed ping, the handle changes in no other step, and every Write and
\* Ping is made on the handle the reporter holds.
C14_ExNoEstablish ==
  /\ [](ctor = "InfluxDBWithTagsEx"
          => \A i \in DOMAIN calls :
               calls[i].op = "connect"
                 => (i = 2 /\ calls[1].op = "ping" /\ ~calls[1].ok))
  /\ [][ctor' = "InfluxDBWithTagsEx"
          => /\ pc = "start" => (rep'.client \in Handles /\ calls' = <<>>
                                 /\ pc' = "select")
             /\ (pc # "start" /\ rep'.client # rep.client)
                  => (hcPc = "reconnect" /\ ~Last(calls).ok)
             /\ (Len(calls') > Len(calls) /\ Last(calls').op \in {"write", "ping"})
                  => Last(calls').h = rep.client]_vars

C14_Witness ==
  /\ ctor = "InfluxDBWithTagsEx"
  /\ pc = "select"
  /\ Len(calls) = 1 /\ calls[1].op = "ping" /\ calls[1].ok
  /\ sent.op = "write" /\ sent.h = rep.client /\ calls[1].h = rep.client

\* C15: when NewBatchPoints fails, send() returns the error without a Write:
\* run() logs it, the encoded points are gone, the reporter is unchanged and
\* the loop is back at its select.
C15_BatchFailureNoWrite ==
  [][(sendPc = "walk" /\ sendPc' = "idle")
       => /\ calls' = <<>>
          /\ sent' = sent
          /\ log' = <<LogSend>>
          /\ bps' = NoBatch
          /\ pc' = "select"
          /\ rep' = rep]_vars

C15_Witness ==
  /\ pc = "select" /\ sendPc = "idle"
  /\ calls = <<>> /\ log = <<LogSend>>
  /\ \E n \in Registered(reg) : reg[n].kind \in Supported /\ reg[n].encodable
  /\ sent = NoCall

\* C16: once the run loop is entered, the reporter changes only in the
\* makeClient that follows a failed ping, and only in its client field; send()
\* leaves the reporter as it is whether Write succeeds or fails; a ping that
\* succeeds ends the health check without a makeClient.
C16_HandleFrame ==
  [][(pc \in Running)
       => /\ rep' # rep
               => /\ hcPc = "reconnect"
                  /\ Last(calls).op = "ping" /\ ~Last(calls).ok
                  /\ rep' = [rep EXCEPT !.client = rep'.client]
          /\ sendPc # "idle" => rep' = rep
          /\ (hcPc = "ping" /\ calls' # calls /\ Last(calls').ok)
               => (rep' = rep /\ hcPc' = "idle" /\ Len(calls') = 1)]_vars

C16_Witness ==
  /\ ctor = "InfluxDBWithTags"
  /\ pc = "select"
  /\ Len(calls) = 1 /\ calls[1].op = "ping" /\ calls[1].ok
  /\ sent.op = "write" /\ ~sent.ok /\ sent.h = rep.client

\* C17 (as claimed): the batch a flush builds holds one record for every
\* metric of a supported variant that is registered when the flush walks the
\* registry, and nothing else, whatever earlier flushes built or failed to write.
C17_FromScratch ==
  [][(sendPc = "walk" /\ sendPc' = "write")
       => LET sup == {n \in Registered(reg) : reg[n].kind \in Supported} IN
          /\ Len(bps'.points) = Cardinality(sup)
          /\ \A n \in sup :
               Cardinality(PointsNamed(bps'.points, n \o TableSuffix[reg[n].kind])) = 1]_vars

\* C17 (amended): the same, with one record for every such metric whose
\* record construction succeeded.
C17_FromScratchEncoded ==
  [][(sendPc = "walk" /\ sendPc' = "write")
       => LET enc == {n \in Registered(reg) :
                        reg[n].kind \in Supported /\ reg[n].encodable} IN
          /\ Len(bps'.points) = Cardinality(enc)
          /\ \A n \in enc :
               Cardinality(PointsNamed(bps'.points, n \o TableSuffix[reg[n].kind])) = 1]_vars

C17_Witness ==
  /\ sendPc = "write"
  /\ sent.op = "write" /\ ~sent.ok
  /\ Len(sent.batch.points) = 2
  /\ Len(bps.points) = 1

\* C18: each ticker holds at most one pending tick, also when ticks arrive
\* while the loop is blocked, and each dispatch takes exactly one tick: a
\* blocked period is followed by at most one flush and one health check.
C18_NoCatchUp ==
  /\ [](flushCh \in 0..1 /\ pingCh \in 0..1)
  /\ [][/\ (pc = "select" /\ pc' = "send") => (flushCh = 1 /\ flushCh' = 0)
        /\ (pc = "select" /\ pc' = "hc") => (pingCh = 1 /\ pingCh' = 0)
        /\ pc # "select" => (flushCh' >= flushCh /\ pingCh' >= pingCh)]_vars

C18_Witness == sendPc = "write" /\ flushCh = 1 /\ pingCh = 1

\* The number of calls of one kind made by the current dispatch.
CountOf(op) == Cardinality({i \in DOMAIN calls : calls[i].op = op})

\* C19: one dispatch makes at most one Ping, one makeClient and one Write; a
\* health check has made exactly one Ping when it goes on or ends, and makes
\* its makeClient only after that Ping failed; a flush makes no Ping and no
\* makeClient, a health check no Write.
C19_NoRetryInDispatch ==
  /\ CountOf("ping") <= 1 /\ CountOf("connect") <= 1 /\ CountOf("write") <= 1
  /\ CountOf("write") = 1 => Len(calls) = 1
  /\ hcPc = "reconnect" => (Len(calls) = 1 /\ calls[1].op = "ping" /\ ~calls[1].ok)
  /\ (pc \in Running \cup {"crashed"} /\ CountOf("connect") = 1 /\ Len(calls) > 1)
       => (Len(calls) = 2 /\ calls[1].op = "ping" /\ ~calls[1].ok
           /\ calls[2].op = "connect")
  /\ (hcPc = "ping" /\ pc # "crashed") => calls = <<>>
  /\ sendPc # "idle" => (CountOf("ping") = 0 /\ CountOf("connect") = 0)

C19_Witness ==
  /\ pc = "select" /\ pingCh = 0
  /\ Len(calls) = 2
  /\ calls[1].op = "ping" /\ ~calls[1].ok
  /\ calls[2].op = "connect" /\ ~calls[2].ok
  /\ log = <<LogPing, LogMakeClient>>

\* C20: with a flush interval of zero or less the flush ticker never fires, so
\* no send() and no Write ever happen and no error of them is logged, while
\* the loop stays alive to service the health-check ticks.
C20_NonPositiveInterval ==
  (pc \notin {"start", "returned"} /\ rep.interval <= 0)
    => /\ flushCh = 0
       /\ sendPc = "idle"
       /\ sent = NoCall
       /\ CountOf("write") = 0
       /\ \A i \in DOMAIN log : log[i] # LogSend
       /\ pc \in Running

====
